---- MODULE Spec2Model ----
(***************************************************************************)
(* A model of src/rust/engine/src/fs.rs: the PathGlobs parser              *)
(* (PathGlobs::create / parse / normalize_doublestar), symlink expansion   *)
(* (FSContext::expand_link) and glob application                            *)
(* (FSContext::apply_path_glob).                                            *)
(*                                                                         *)
(* A PathBuf is modelled by the sequence of its components (Rust compares  *)
(* paths component-wise).  A filespec is given as the sequence of its      *)
(* separator-delimited segments; PathIter is what Path::iter() yields.     *)
(* A Rust panic is the value Panic.                                        *)
(***************************************************************************)
EXTENDS Integers, Sequences, FiniteSets, TLC

VARIABLES
  relative_to,    \* create: the base Dir
  filespecs,      \* create: the Vec<PathBuf> argument, each a sequence of segments
  createRet,      \* create: NoneVal before the call, then Ok(globs) or Panic
  fs,             \* the backend's link structure: a chain of fs.n links
  pc,             \* expand_link: position in the function
  link,           \* expand_link: the local `link`
  attempts,       \* expand_link: the local `attempts`
  target,         \* expand_link: the path read_link returned in this round
  expansion,      \* expand_link: NoneVal, then the Result returned
  pended,         \* the first backend call that answered with a continuation
  calls,          \* number of backend calls made, per primitive
  path_glob,      \* apply_path_glob: the PathGlob argument
  scandirAnswer,  \* what the backend answers to scandir(canonical_dir)
  applyRet        \* apply_path_glob: NoneVal, then Ok(path stats), Err(ks) or Panic

parserVars == <<relative_to, filespecs, createRet>>
linkVars   == <<fs, pc, link, attempts, target, expansion, pended>>
applyVars  == <<path_glob, scandirAnswer, applyRet>>
vars == <<relative_to, filespecs, createRet, fs, pc, link, attempts, target,
          expansion, pended, calls, path_glob, scandirAnswer, applyRet>>

----------------------------------------------------------------------------
(* Bounds of the model *)

MaxLen == 4        \* segments of a filespec
MaxShortLen == 2   \* segments of a filespec inside a list of several
MaxChain == 66     \* links in a chain that ends in a File or Dir
MaxCycle == 2      \* links in a chain that loops back on itself
MaxListing == 2    \* entries of a directory listing

----------------------------------------------------------------------------
(* Values *)

NoneVal == [tag |-> "None"]
Panic == [tag |-> "Panic"]
Ok(v) == [tag |-> "Ok", val |-> v]
Err(k) == [tag |-> "Err", k |-> k]

Link(p) == [tag |-> "Link", path |-> p]
Dir(p) == [tag |-> "Dir", path |-> p]
File(p) == [tag |-> "File", path |-> p]

PathStat(path, stat) == [path |-> path, stat |-> stat]

Root == [tag |-> "Root"]

wildcard(canonical_dir, symbolic_path, wc) ==
  [tag |-> "Wildcard", canonical_dir |-> canonical_dir,
   symbolic_path |-> symbolic_path, wildcard |-> wc]

dir_wildcard(canonical_dir, symbolic_path, wc, remainder) ==
  [tag |-> "DirWildcard", canonical_dir |-> canonical_dir,
   symbolic_path |-> symbolic_path, wildcard |-> wc, remainder |-> remainder]

root_stat_link == PathStat(<<>>, Link(<<>>))

root_stat_file == PathStat(<<"x">>, File(<<"x">>))

root_stat == PathStat(<<>>, Dir(<<>>))

SINGLE_STAR == "*"
DOUBLE_STAR == "**"
MAX_LINK_EXPANSION_ATTEMPTS == 64

----------------------------------------------------------------------------
(* The parser *)

\* PathBuf::push of each component onto an empty PathBuf
RECURSIVE join(_)
join(components) ==
  IF components = <<>> THEN <<>>
  ELSE Append(join(SubSeq(components, 1, Len(components) - 1)),
              components[Len(components)])

\* Path::iter(): a "." segment is dropped unless it is the first one
RECURSIVE PathIter(_)
PathIter(filespec) ==
  IF Len(filespec) <= 1 THEN filespec
  ELSE LET init == PathIter(SubSeq(filespec, 1, Len(filespec) - 1))
           last == filespec[Len(filespec)]
       IN IF last = "." THEN init ELSE Append(init, last)

\* the while loop of normalize_doublestar; idx is 0-based as in the source
RECURSIVE SkipDoubleStar(_, _)
SkipDoubleStar(parts, idx) ==
  IF idx < Len(parts) /\ DOUBLE_STAR = parts[idx + 1]
  THEN SkipDoubleStar(parts, idx + 1)
  ELSE idx

Drain(parts, idx) ==
  IF idx > Len(parts) THEN Panic
  ELSE Ok(SubSeq(parts, idx + 1, Len(parts)))

normalize_doublestar_noskip(parts) == Drain(parts, 1)

normalize_doublestar(parts) == Drain(parts, SkipDoubleStar(parts, 1))

parse(canonical_dir, symbolic_path, filespec) ==
  LET n == normalize_doublestar(PathIter(filespec)) IN
  IF n.tag = "Panic" THEN Panic
  ELSE LET parts == n.val IN
    IF canonical_dir = "." /\ Len(parts) = 1 /\ parts[1] = "."
    THEN Ok(<<Root>>)
    ELSE IF Len(parts) = 0 THEN Panic   \* parts[0] is out of bounds
    ELSE IF DOUBLE_STAR = parts[1] THEN
      IF Len(parts) = 1
      THEN Ok(<<dir_wildcard(canonical_dir, symbolic_path, SINGLE_STAR, <<DOUBLE_STAR>>),
                wildcard(canonical_dir, symbolic_path, SINGLE_STAR)>>)
      ELSE LET pathglob_with_doublestar ==
                 dir_wildcard(canonical_dir, symbolic_path, SINGLE_STAR, join(parts))
               pathglob_no_doublestar ==
                 IF Len(parts) = 2
                 THEN wildcard(canonical_dir, symbolic_path, parts[2])
                 ELSE dir_wildcard(canonical_dir, symbolic_path, parts[2],
                                   join(SubSeq(parts, 3, Len(parts))))
           IN Ok(<<pathglob_with_doublestar, pathglob_no_doublestar>>)
    ELSE IF Len(parts) = 1
    THEN Ok(<<wildcard(canonical_dir, symbolic_path, parts[1])>>)
    ELSE Ok(<<dir_wildcard(canonical_dir, symbolic_path, parts[1],
                           join(SubSeq(parts, 2, Len(parts))))>>)

\* filespecs.iter().flat_map(parse).collect(); a panic in any parse aborts create
RECURSIVE create(_, _)
create(dir, specs) ==
  IF specs = <<>> THEN Ok(<<>>)
  ELSE LET head == parse(dir, dir, Head(specs))
           rest == create(dir, Tail(specs))
       IN IF head.tag = "Panic" \/ rest.tag = "Panic" THEN Panic
          ELSE Ok(head.val \o rest.val)

Segments == {".", "**", "a", "b"}
DirNames == {".", "d"}

SeqsUpTo(S, n) == UNION {[1..m -> S] : m \in 0..n}

\* create is called with one filespec, or with a pair of short ones
FilespecLists ==
  {<<f>> : f \in SeqsUpTo(Segments, MaxLen)}
    \cup {<<f, g>> : f \in SeqsUpTo(Segments, MaxShortLen),
                     g \in SeqsUpTo(Segments, MaxShortLen)}

IdleParser ==
  /\ relative_to = "."
  /\ filespecs = <<>>
  /\ createRet = NoneVal

IdleLink ==
  /\ fs = [n |-> 0, end |-> "File", back |-> 0]
  /\ pc = "idle"
  /\ link = NoneVal
  /\ attempts = 0
  /\ target = NoneVal
  /\ expansion = NoneVal
  /\ pended = NoneVal

IdleApply ==
  /\ path_glob = Root
  /\ scandirAnswer = Ok(<<>>)
  /\ applyRet = NoneVal

NoCalls == [read_link |-> 0, stat |-> 0, scandir |-> 0]

Init ==
  /\ relative_to \in DirNames
  /\ filespecs \in FilespecLists
  /\ createRet = NoneVal
  /\ calls = NoCalls
  /\ IdleLink
  /\ IdleApply

Create ==
  /\ createRet = NoneVal
  /\ createRet' = create(relative_to, filespecs)
  /\ UNCHANGED <<relative_to, filespecs, calls, linkVars, applyVars>>

Next == Create

Spec == Init /\ [][Next]_vars

----------------------------------------------------------------------------
(* Claims about the parser, checked under Spec *)

Created == createRet # NoneVal
Single == Len(filespecs) = 1
Parts == PathIter(filespecs[1])
RootRequest == relative_to = "." /\ Parts = <<".">>

\* C1: create with base directory "." and the single pattern "." returns a
\* Glob Sequence that contains exactly one unit, and that unit is Root.
C1_RootRequestYieldsRoot ==
  (Created /\ Single /\ RootRequest) => createRet = Ok(<<Root>>)

\* The number of leading "**" components of a sequence.
RECURSIVE LeadingStars(_)
LeadingStars(seq) ==
  IF seq # <<>> /\ Head(seq) = "**" THEN 1 + LeadingStars(Tail(seq)) ELSE 0

\* The zero-directory interpretation of a pattern  ** / rest.
ZeroDirUnit(dir, rest) ==
  IF rest = <<>> THEN wildcard(dir, dir, "*")
  ELSE IF Len(rest) = 1 THEN wildcard(dir, dir, rest[1])
  ELSE dir_wildcard(dir, dir, rest[1], Tail(rest))

\* C2: for every base directory and every pattern whose first component is
\* "**" (here: and whose second is not), create yields exactly two units, in this order:
\* DirWildcard(dir, "*", remainder = the pattern itself), then the
\* zero-directory interpretation of the rest of the pattern.
C2_DoubleStarYieldsTwoUnits ==
  (Created /\ Single /\ LeadingStars(Parts) = 1) =>
    createRet = Ok(<<dir_wildcard(relative_to, relative_to, "*", Parts),
                     ZeroDirUnit(relative_to, Tail(Parts))>>)

\* C3: for every base directory and every pattern whose first component c is
\* not "**" (and that is not the root request), create yields exactly one
\* unit: Wildcard(dir, c) for a single component, and otherwise
\* DirWildcard(dir, c, remainder = the remaining components in order).
C3_PlainPatternYieldsOneUnit ==
  (Created /\ Single /\ Parts # <<>> /\ Parts[1] # "**" /\ ~RootRequest) =>
    createRet = Ok(<<IF Len(Parts) = 1
                     THEN wildcard(relative_to, relative_to, Parts[1])
                     ELSE dir_wildcard(relative_to, relative_to, Parts[1], Tail(Parts))>>)

\* The pattern  c / ** / ... / ** / rest  with a run of k doublestars.
RECURSIVE Stars(_)
Stars(k) == IF k = 0 THEN <<>> ELSE <<"**">> \o Stars(k - 1)
RunPattern(c, k, rest) == <<c>> \o Stars(k) \o rest

RunLength == LeadingStars(Tail(Parts))
RunRest == SubSeq(Parts, RunLength + 2, Len(Parts))
HasRunShape ==
  /\ Parts # <<>>
  /\ Parts[1] # "**"
  /\ RunLength >= 1
  /\ RunRest # <<>>

\* C4: doublestar collapsing is idempotent: for every pattern of the form
\* c/**/.../**/rest (a non-doublestar c, a run of k >= 1 doublestars, rest
\* not empty) create yields the same Glob Sequence for every run length.
C4_DoubleStarRunCollapses ==
  (Created /\ Single /\ HasRunShape) =>
    \A j \in 1..MaxLen :
      createRet = create(relative_to, <<RunPattern(Parts[1], j, RunRest)>>)

C4_Witness ==
  /\ Created /\ Single
  /\ filespecs[1] = <<"a", "**", "**", "b">>
  /\ createRet = create(relative_to, <<<<"a", "**", "b">>>>)
  /\ createRet.tag = "Ok"

\* C5: create is total: for every base directory and every list of patterns,
\* each a non-empty sequence of path components, create returns a Glob
\* Sequence and never aborts.
C5_CreateIsTotal ==
  (Created /\ \A i \in 1..Len(filespecs) : PathIter(filespecs[i]) # <<>>) =>
    createRet.tag = "Ok"

----------------------------------------------------------------------------
(* The backend of expand_link: a chain of fs.n links at paths 1..fs.n.     *)
(* The link at path p < fs.n points to path p + 1.  The last link points   *)
(* to a File or Dir at path fs.n + 1, or back to the link at path fs.back. *)

Chains ==
  {[n |-> n, end |-> e, back |-> 0] : n \in 1..MaxChain, e \in {"File", "Dir"}}
    \cup UNION {{[n |-> n, end |-> "Cycle", back |-> b] : b \in 1..n} : n \in 1..MaxCycle}

\* the continuation values an asynchronous backend may answer with
Continuations == {"k1", "k2"}

\* FSContext::read_link answering synchronously
ReadLinkTarget(l) ==
  IF l.path < fs.n THEN l.path + 1
  ELSE IF fs.end = "Cycle" THEN fs.back
  ELSE fs.n + 1

\* FSContext::stat answering synchronously (never follows a link)
StatOf(p) ==
  IF p <= fs.n THEN Link(p)
  ELSE IF fs.end = "File" THEN File(p)
  ELSE Dir(p)

ReadLinkAnswers(l) == {Ok(ReadLinkTarget(l))} \cup {Err(k) : k \in Continuations}
StatAnswers(p) == {Ok(StatOf(p))} \cup {Err(k) : k \in Continuations}

Pended(call, answer) ==
  IF answer.tag = "Err"
  THEN [tag |-> "Pended", call |-> call, k |-> answer.k, calls |-> calls']
  ELSE NoneVal

----------------------------------------------------------------------------
(* expand_link *)

ExceededAtMax(n) == n >= MAX_LINK_EXPANSION_ATTEMPTS

Exceeded(n) == n > MAX_LINK_EXPANSION_ATTEMPTS

\* what expand_link does with the answer of stat: a pending stat is retried
OnStatRetry(answer, l) ==
  IF answer.tag = "Err" THEN [pc |-> "loop", link |-> l, expansion |-> NoneVal]
  ELSE IF answer.val.tag = "Link"
  THEN [pc |-> "loop", link |-> answer.val, expansion |-> NoneVal]
  ELSE [pc |-> "done", link |-> l, expansion |-> Ok(answer.val)]

\* the match on context.stat(..): continue with a Link, return a Dir or File,
\* return the Err
OnStat(answer, l) ==
  IF answer.tag = "Err" THEN [pc |-> "done", link |-> l, expansion |-> answer]
  ELSE IF answer.val.tag = "Link"
  THEN [pc |-> "loop", link |-> answer.val, expansion |-> NoneVal]
  ELSE [pc |-> "done", link |-> l, expansion |-> Ok(answer.val)]

\* the `?` on context.read_link(&link)
OnReadLink(answer) ==
  IF answer.tag = "Err"
  THEN [pc |-> "done", target |-> NoneVal, expansion |-> answer]
  ELSE [pc |-> "stat", target |-> answer.val, expansion |-> NoneVal]

InitLink ==
  /\ fs \in Chains
  /\ pc = "idle"
  /\ link = NoneVal
  /\ attempts = 0
  /\ target = NoneVal
  /\ expansion = NoneVal
  /\ pended = NoneVal
  /\ calls = NoCalls
  /\ IdleParser
  /\ IdleApply

\* expand_link is entered with the head of the chain
ExpandLinkEnter ==
  /\ pc = "idle"
  /\ link' = Link(1)
  /\ attempts' = 0
  /\ pc' = "loop"
  /\ UNCHANGED <<fs, target, expansion, pended, calls, parserVars, applyVars>>

\* the head of the loop: count the attempt and give up beyond the maximum
LoopHead ==
  /\ pc = "loop"
  /\ attempts' = attempts + 1
  /\ IF Exceeded(attempts')
     THEN /\ pc' = "done"
          /\ expansion' = Ok([tag |-> "Loop", link |-> link])
     ELSE /\ pc' = "read_link"
          /\ UNCHANGED expansion
  /\ UNCHANGED <<fs, link, target, pended, calls, parserVars, applyVars>>

ReadLink ==
  /\ pc = "read_link"
  /\ \E answer \in ReadLinkAnswers(link) :
       /\ calls' = [calls EXCEPT !.read_link = @ + 1]
       /\ pended' = Pended("read_link", answer)
       /\ pc' = OnReadLink(answer).pc
       /\ target' = OnReadLink(answer).target
       /\ expansion' = OnReadLink(answer).expansion
  /\ UNCHANGED <<fs, link, attempts, parserVars, applyVars>>

StatTarget ==
  /\ pc = "stat"
  /\ \E answer \in StatAnswers(target) :
       /\ calls' = [calls EXCEPT !.stat = @ + 1]
       /\ pended' = Pended("stat", answer)
       /\ pc' = OnStat(answer, link).pc
       /\ link' = OnStat(answer, link).link
       /\ expansion' = OnStat(answer, link).expansion
  /\ UNCHANGED <<fs, attempts, target, parserVars, applyVars>>

NextLink == ExpandLinkEnter \/ LoopHead \/ ReadLink \/ StatTarget

SpecLink == InitLink /\ [][NextLink]_vars

----------------------------------------------------------------------------
(* Claims about expand_link, checked under SpecLink *)

Returned == pc = "done"

\* C6: with a backend that answers every call synchronously, expand_link
\* started on the head of a chain of N < 64 distinct links that ends in a
\* File or Dir returns that File or Dir; started on a chain that forms a
\* cycle it returns Loop after exactly 64 read_link+stat rounds.
C6_ChainResolvesAndCycleLoopsAt64 ==
  (Returned /\ pended = NoneVal) =>
    /\ (fs.end # "Cycle" /\ fs.n < 64) =>
         expansion = Ok([tag |-> fs.end, path |-> fs.n + 1])
    /\ (fs.end = "Cycle") =>
         /\ expansion.val.tag = "Loop"
         /\ calls.read_link = 64
         /\ calls.stat = 64

C6_Witness ==
  /\ Returned /\ pended = NoneVal
  /\ fs.end = "Cycle"
  /\ expansion.val.tag = "Loop"
  /\ calls.read_link = 64

\* C10: when read_link or stat answers with a pending signal, at any round,
\* expand_link returns that same signal at once: it has returned, its result
\* is that Err (no File, Dir or Loop), and no backend call was made after
\* the one that pended (so stat is not called after a pending read_link).
C10_PendingShortCircuits ==
  (pended # NoneVal) =>
    /\ Returned
    /\ expansion = Err(pended.k)
    /\ calls = pended.calls
    /\ (pended.call = "read_link") => calls.stat = calls.read_link - 1

C10_Witness ==
  /\ Returned
  /\ pended # NoneVal
  /\ pended.call = "read_link"
  /\ attempts = 3
  /\ expansion = Err("k2")

----------------------------------------------------------------------------
(* apply_path_glob *)

WildcardNames == {"*", "a"}
Remainders == {<<"**">>, <<"b">>}
EntryPaths == {<<"d", "a">>, <<"d", "b">>}

PathGlobValues ==
  {Root}
    \cup {wildcard(d, d, w) : d \in DirNames, w \in WildcardNames}
    \cup {dir_wildcard(d, d, w, r) : d \in DirNames, w \in WildcardNames,
                                        r \in Remainders}

Stats == {Link(p) : p \in EntryPaths} \cup {Dir(p) : p \in EntryPaths}
           \cup {File(p) : p \in EntryPaths}

\* FSContext::scandir: a listing, or a continuation
ScandirAnswers ==
  {Ok(l) : l \in SeqsUpTo(Stats, MaxListing)} \cup {Err(k) : k \in Continuations}

\* self.scandir(canonical_dir).map_err(|k| vec![k])?  and the panic! after it
OnScandir(answer) ==
  IF answer.tag = "Err" THEN Err(<<answer.k>>) ELSE Panic

InitApply ==
  /\ path_glob \in PathGlobValues
  /\ scandirAnswer \in ScandirAnswers
  /\ applyRet = NoneVal
  /\ calls = NoCalls
  /\ IdleParser
  /\ IdleLink

ApplyRoot ==
  /\ applyRet = NoneVal
  /\ path_glob.tag = "Root"
  /\ applyRet' = Ok(<<root_stat>>)
  /\ UNCHANGED <<path_glob, scandirAnswer, calls, parserVars, linkVars>>

ApplyWildcard ==
  /\ applyRet = NoneVal
  /\ path_glob.tag = "Wildcard"
  /\ calls' = [calls EXCEPT !.scandir = @ + 1]
  /\ applyRet' = OnScandir(scandirAnswer)
  /\ UNCHANGED <<path_glob, scandirAnswer, parserVars, linkVars>>

ApplyDirWildcard ==
  /\ applyRet = NoneVal
  /\ path_glob.tag = "DirWildcard"
  /\ applyRet' = Panic
  /\ UNCHANGED <<path_glob, scandirAnswer, calls, parserVars, linkVars>>

NextApply == ApplyRoot \/ ApplyWildcard \/ ApplyDirWildcard

SpecApply == InitApply /\ [][NextApply]_vars

----------------------------------------------------------------------------
(* Claims about apply_path_glob, checked under SpecApply *)

Applied == applyRet # NoneVal

\* C7: every Resolved Match that apply_path_glob returns, for any glob unit
\* and any backend answer, has classification Dir or File and never Link.
C7_MatchesAreNeverLinks ==
  (Applied /\ applyRet.tag = "Ok") =>
    \A i \in 1..Len(applyRet.val) : applyRet.val[i].stat.tag \in {"Dir", "File"}

C7_Witness ==
  /\ Applied
  /\ applyRet.tag = "Ok"
  /\ Len(applyRet.val) = 1
  /\ applyRet.val[1].stat.tag = "Dir"

\* No entry of the listing is a directory or could resolve to one.
NoDirectoryCandidate ==
  /\ scandirAnswer.tag = "Ok"
  /\ \A i \in 1..Len(scandirAnswer.val) : scandirAnswer.val[i].tag = "File"

\* C8: applying a DirWildcard unit to a canonical_dir whose listing has no
\* entry that matches the wildcard and is (or resolves to) a directory
\* returns success with an empty sequence of Resolved Matches: no error, no
\* pending signal and no abort.
C8_DirWildcardNoMatchIsEmptySuccess ==
  (Applied /\ path_glob.tag = "DirWildcard" /\ NoDirectoryCandidate) =>
    applyRet = Ok(<<>>)

\* C9: applying the Root unit always succeeds with exactly one Resolved Match
\* whose symbolic path is empty and whose classification is Dir(empty path),
\* and it makes no call to stat, read_link or scandir, whatever the backend
\* would answer.
C9_RootIsOneDirMatchWithoutBackend ==
  (Applied /\ path_glob.tag = "Root") =>
    /\ applyRet = Ok(<<[path |-> <<>>, stat |-> [tag |-> "Dir", path |-> <<>>]]>>)
    /\ calls = [read_link |-> 0, stat |-> 0, scandir |-> 0]

C9_Witness ==
  /\ Applied
  /\ path_glob.tag = "Root"
  /\ scandirAnswer.tag = "Err"
  /\ applyRet.tag = "Ok"

====
